---------------------------- MODULE Spec2Model ----------------------------
(***************************************************************************)
(* Model of the TfL accidents loader (src/dlt/load_to_postgres.py):        *)
(* sanitize_json_field, clean_and_transform_data, recreate_table,          *)
(* load_csv_in_batches and process_pipeline; and of the ingestion          *)
(* (src/dlt/ingest_data.py): move_and_transform_data, jsonl_to_csv and     *)
(* upload_to_gcs.                                                          *)
(*                                                                         *)
(* Text is modelled as TLA+ strings.  A conversion from text (parsing a    *)
(* Python literal, a number, a date, a COPY field) is the inverse of the   *)
(* corresponding rendering over a finite pool of values, so that text that *)
(* one syntax accepts and another rejects stays distinguishable.           *)
(***************************************************************************)
EXTENDS Integers, Sequences, FiniteSets, TLC

VARIABLES
    field,      \* sanitize_json_field: the argument of the call
    sanitized,  \* sanitize_json_field: the outcome of the call, or Pending
    pc,         \* the statement process_pipeline or its callee is at
    files,      \* the compressed sources in LOCAL_STORAGE, in listing order
    disk,       \* the paths present in LOCAL_STORAGE
    fileIdx,    \* process_pipeline: the index of local_file in local_files
    pos,        \* load_csv_in_batches: rows of the source read so far
    chunk,      \* load_csv_in_batches: the chunk as read from the source
    result,     \* the outcome of clean_and_transform_data on the chunk
    csv_buffer, \* the rows written by to_csv, each a list of fields
    total_rows, \* load_csv_in_batches: the running total
    conn,       \* the connection of load_csv_in_batches
    txn,        \* the table as the connection's open transaction sees it
    table,      \* the destination table, as committed
    error,      \* the exception being handled or propagated, "" for none
    log,        \* the log records of the run, oldest first
    runs,       \* the runs of process_pipeline started so far
    jsonl_files, \* move_and_transform_data: the JSONL files moved, in order
    bucket      \* the names of the blobs in the GCS bucket

-----------------------------------------------------------------------------
(* Python values, as trees.  t is the node's type, a its atom (the digits   *)
(* of a number, the characters of a string, the key of a dict item), kids   *)
(* its children.                                                            *)

Node(t, a, kids) == [t |-> t, a |-> a, kids |-> kids]
Atom(t, a) == Node(t, a, <<>>)
Pair(key, v) == Node("pair", key, <<v>>)
Dict(pairs) == Node("dict", "", pairs)
List(items) == Node("list", "", items)

Int30 == Atom("int", "30")
Int1 == Atom("int", "1")
StrX == Atom("str", "X")
PyTrue == Atom("bool", "True")
PyNone == Atom("none", "None")
PyInf == Atom("float", "inf")
PyBytes == Atom("bytes", "x")
PyName == Atom("name", "foo")

\* Values a dict item may hold.
ItemValues == {Int30, StrX, PyTrue, PyNone, PyInf}

Scalars == ItemValues \cup {PyBytes, PyName}

Dicts ==
    {Dict(<<>>), Dict(<<Pair("$type", StrX)>>)}
    \cup {Dict(<<Pair("age", v)>>) : v \in ItemValues}
    \cup {Dict(<<Pair("$type", StrX), Pair("age", v)>>) : v \in ItemValues}
    \cup {Dict(<<Pair("age", List(<<Int1, Int30>>))>>)}

Lists ==
    {List(<<>>)}
    \cup {List(<<d>>) : d \in Dicts}
    \cup {List(<<s>>) : s \in Scalars}
    \cup {List(<<Dict(<<Pair("$type", StrX), Pair("age", Int30)>>), d>>) :
            d \in {Dict(<<Pair("age", Int1)>>), Dict(<<Pair("$type", StrX)>>)}}
    \cup {List(<<Dict(<<Pair("age", Int30)>>), Int1>>),
          List(<<Int1, Int30>>),
          List(<<Int30, StrX>>),
          List(<<List(<<Dict(<<Pair("$type", StrX), Pair("age", Int30)>>)>>)>>)}

Others ==
    {Node("set", "", <<Int1, Int30>>), Node("tuple", "", <<Int30, StrX>>)}

RECURSIVE StripType(_)
\* line 87: {k: v for k, v in item.items() if k != "$type"}
StripType(pairs) ==
    IF pairs = <<>> THEN <<>>
    ELSE IF Head(pairs).a = "$type" THEN StripType(Tail(pairs))
    ELSE <<Head(pairs)>> \o StripType(Tail(pairs))

IsDict(v) == v.t = "dict"

CleanItem(item) == Dict(StripType(item.kids))

BaseTrees == Scalars \cup Dicts \cup Lists \cup Others

\* The pool of values text is parsed against: the base values and the lists
\* sanitize_json_field builds from them.
TreePool ==
    BaseTrees
    \cup {List([i \in 1..Len(l.kids) |-> CleanItem(l.kids[i])]) :
            l \in {x \in Lists : \A i \in 1..Len(x.kids) : IsDict(x.kids[i])}}

-----------------------------------------------------------------------------
(* Rendering: Python literal syntax (repr) and JSON syntax (json.dumps).    *)

RECURSIVE RenderPy(_), JoinPy(_), RenderJson(_), JoinJson(_)

JoinPy(kids) ==
    IF kids = <<>> THEN ""
    ELSE IF Len(kids) = 1 THEN RenderPy(kids[1])
    ELSE RenderPy(kids[1]) \o ", " \o JoinPy(Tail(kids))

RenderPy(v) ==
    CASE v.t = "int" -> v.a
      [] v.t = "str" -> "'" \o v.a \o "'"
      [] v.t = "bool" -> v.a
      [] v.t = "none" -> "None"
      [] v.t = "float" -> "1e999"
      [] v.t = "bytes" -> "b'" \o v.a \o "'"
      [] v.t = "name" -> v.a
      [] v.t = "pair" -> "'" \o v.a \o "': " \o RenderPy(v.kids[1])
      [] v.t = "list" -> "[" \o JoinPy(v.kids) \o "]"
      [] v.t = "tuple" -> "(" \o JoinPy(v.kids) \o ")"
      [] v.t = "set" -> "{" \o JoinPy(v.kids) \o "}"
      [] v.t = "dict" -> "{" \o JoinPy(v.kids) \o "}"

JoinJson(kids) ==
    IF kids = <<>> THEN ""
    ELSE IF Len(kids) = 1 THEN RenderJson(kids[1])
    ELSE RenderJson(kids[1]) \o ", " \o JoinJson(Tail(kids))

\* json.dumps with its defaults: separators ", " and ": ", allow_nan=True,
\* a tuple written as an array.  Defined on the values json.dumps accepts.
RenderJson(v) ==
    CASE v.t = "int" -> v.a
      [] v.t = "str" -> "\"" \o v.a \o "\""
      [] v.t = "bool" -> IF v.a = "True" THEN "true" ELSE "false"
      [] v.t = "none" -> "null"
      [] v.t = "float" -> "Infinity"
      [] v.t = "pair" -> "\"" \o v.a \o "\": " \o RenderJson(v.kids[1])
      [] v.t = "list" -> "[" \o JoinJson(v.kids) \o "]"
      [] v.t = "tuple" -> "[" \o JoinJson(v.kids) \o "]"
      [] v.t = "dict" -> "{" \o JoinJson(v.kids) \o "}"

RECURSIVE HasType(_, _), AnyHasType(_, _)

AnyHasType(kids, ts) ==
    kids # <<>> /\ (HasType(kids[1], ts) \/ AnyHasType(Tail(kids), ts))

\* Whether the value holds a node of one of the types ts.
HasType(v, ts) == v.t \in ts \/ AnyHasType(v.kids, ts)

\* What json.dumps raises TypeError on.
Serializable(v) == ~HasType(v, {"set", "bytes", "name"})

\* JSON text as RFC 8259 has it: no Infinity token.
StrictJson(v) == Serializable(v) /\ ~HasType(v, {"float"})

PyTexts == {RenderPy(v) : v \in TreePool}

JsonTexts == {RenderJson(v) : v \in {x \in TreePool : Serializable(x)}}

ValidJsonTexts == {RenderJson(v) : v \in {x \in TreePool : StrictJson(x)}}

-----------------------------------------------------------------------------
(* Outcomes of a call: a returned value or a raised exception.              *)

Raise(exc) == [exc |-> exc, none |-> FALSE, text |-> "", v |-> PyNone]
ReturnNone == [exc |-> "", none |-> TRUE, text |-> "", v |-> PyNone]
ReturnText(s) == [exc |-> "", none |-> FALSE, text |-> s, v |-> PyNone]
ReturnValue(v) == [exc |-> "", none |-> FALSE, text |-> "", v |-> v]
Pending == [exc |-> "pending", none |-> FALSE, text |-> "", v |-> PyNone]

\* Cells of a data frame: k is the cell's kind, s its text.
NaN == [k |-> "nan", s |-> ""]
None == [k |-> "none", s |-> ""]
Str(s) == [k |-> "str", s |-> s]

\* pd.isna: NaN, NaT and None are missing values.
IsNa(cell) == cell.k \in {"nan", "none", "nat"}

\* str.strip, on the texts of the model: whitespace only, or no whitespace
\* at either end.
Blanks == {"", " ", "  "}
Strip(s) == IF s \in Blanks THEN "" ELSE s

\* What ast.literal_eval makes of a parsed expression: a node that is no
\* literal is a ValueError.
EvalNode(v, names) ==
    IF HasType(v, names) THEN Raise("ValueError") ELSE ReturnValue(v)

\* The value whose Python rendering, or whose JSON rendering, is s.
PyValueOf(s) == CHOOSE x \in TreePool : RenderPy(x) = s
JsonValueOf(s) ==
    CHOOSE x \in TreePool :
        Serializable(x) /\ ~HasType(x, {"tuple"}) /\ RenderJson(x) = s

\* ast.literal_eval: the value of a Python literal.  JSON text is Python
\* syntax as well, in which true, false, null and Infinity are names and not
\* literals.  SyntaxError: no expression at all.
LiteralEval(s) ==
    IF s \in PyTexts THEN EvalNode(PyValueOf(s), {"name"})
    ELSE IF s \in JsonTexts THEN EvalNode(JsonValueOf(s), {"bool", "none", "float"})
    ELSE Raise("SyntaxError")

\* json.dumps: TypeError on a value that is not JSON serializable.
JsonDumps(v) ==
    IF Serializable(v) THEN ReturnText(RenderJson(v)) ELSE Raise("TypeError")

\* line 87: the list comprehension calls item.items() on every element.
CleanList(parsed) ==
    IF \E i \in 1..Len(parsed.kids) : ~IsDict(parsed.kids[i])
    THEN Raise("AttributeError")
    ELSE ReturnValue(List([i \in 1..Len(parsed.kids) |-> CleanItem(parsed.kids[i])]))

\* line 90: except (ValueError, SyntaxError)
SanitizeCaught == {"ValueError", "SyntaxError"}

\* line 88: json.dumps(cleaned_data), unless line 87 raised.
DumpCleaned(cleaned) ==
    IF cleaned.exc # "" THEN cleaned ELSE JsonDumps(cleaned.v)

\* lines 86-89, on the outcome of line 85.
DumpParsed(parsed) ==
    IF parsed.exc # "" THEN parsed
    ELSE IF parsed.v.t = "list" THEN DumpCleaned(CleanList(parsed.v))
    ELSE JsonDumps(parsed.v)

\* lines 85-89, the body of the try statement.
SanitizeTry(s) == DumpParsed(LiteralEval(s))

\* lines 90-92: the exceptions of the try statement that are caught are
\* logged and None is returned; any other propagates.
SanitizeExcept(r) == IF r.exc \in SanitizeCaught THEN ReturnNone ELSE r

sanitize_json_field(f) ==
    IF IsNa(f) \/ Strip(f.s) = "" THEN ReturnNone
    ELSE SanitizeExcept(SanitizeTry(f.s))

-----------------------------------------------------------------------------
(* Data frames: columns is the list of column names, rows the list of rows, *)
(* each a function from the column names to cells.                          *)

Frame(columns, rows) == [columns |-> columns, rows |-> rows]

Range(seq) == {seq[i] : i \in 1..Len(seq)}

\* The subsequence of seq with the elements that satisfy Keep.
SelectCols(seq, keep) == SelectSeq(seq, LAMBDA c : c \in keep)

\* lines 143-146
expected_columns ==
    <<"accident_id", "lat", "lon", "location", "accident_date",
      "severity", "borough", "casualties", "vehicles">>

\* lines 136-139
rename_mapping(c) ==
    CASE c = "id" -> "accident_id"
      [] c = "date" -> "accident_date"
      [] OTHER -> c

\* lines 132-133: df.drop(columns=["$type"], inplace=True)
DropType(df) ==
    IF "$type" \in Range(df.columns)
    THEN Frame(SelectSeq(df.columns, LAMBDA c : c # "$type"),
               [i \in 1..Len(df.rows) |->
                    [c \in Range(df.columns) \ {"$type"} |-> df.rows[i][c]]])
    ELSE df

\* line 140: df.rename(columns=rename_mapping, inplace=True)
Rename(df) ==
    Frame([i \in 1..Len(df.columns) |-> rename_mapping(df.columns[i])],
          [i \in 1..Len(df.rows) |->
               [c \in {rename_mapping(x) : x \in Range(df.columns)} |->
                    df.rows[i][CHOOSE x \in Range(df.columns) : rename_mapping(x) = c]]])

\* line 147: df[[col for col in expected_columns if col in df.columns]]
Project(df) ==
    Frame(SelectCols(expected_columns, Range(df.columns)),
          [i \in 1..Len(df.rows) |->
               [c \in Range(expected_columns) \cap Range(df.columns) |-> df.rows[i][c]]])

\* The most sources in LOCAL_STORAGE and the most rows in a source.
MaxFiles == 2
MaxFileRows == 3

\* The integers of the model, as text.
MaxId == MaxFiles * MaxFileRows
IntTexts == {ToString(n) : n \in 0..MaxId}

\* pd.to_numeric(errors="coerce") on one cell: the number, or NaN.
ToNumeric(cell) ==
    IF ~IsNa(cell) /\ cell.s \in IntTexts THEN [k |-> "int", s |-> cell.s] ELSE NaN

\* line 150: the coerced column without its NaN rows, as integers, is
\* assigned back by index.  A row that dropna removed has no value to
\* assign and gets NaN, and a column holding a NaN is a float column.
AsIdCell(cell, anyNa) ==
    IF IsNa(cell) THEN NaN
    ELSE IF anyNa THEN [k |-> "float", s |-> cell.s \o ".0"]
    ELSE cell

CoerceId(df) ==
    Frame(df.columns,
          [i \in 1..Len(df.rows) |->
               [df.rows[i] EXCEPT !["accident_id"] =
                    AsIdCell(ToNumeric(@),
                             \E j \in 1..Len(df.rows) :
                                 IsNa(ToNumeric(df.rows[j]["accident_id"])))]])

\* The dates of the model: the text the API gives and the text pandas
\* writes for the timestamp.
DateIn == "2015-01-05T12:30:00Z"
DateOut == "2015-01-05 12:30:00+00:00"
NaT == [k |-> "nat", s |-> ""]

\* pd.to_datetime(errors="coerce") on one cell: the timestamp, or NaT.
ToDatetime(cell) ==
    IF cell.k \notin {"nan", "none", "nat"} /\ cell.s = DateIn
    THEN [k |-> "ts", s |-> DateOut]
    ELSE NaT

\* A coercion that drops the rows whose date is not one.
CoerceDateDropping(df) ==
    Frame(df.columns,
          SelectSeq([i \in 1..Len(df.rows) |->
                        [df.rows[i] EXCEPT !["accident_date"] = ToDatetime(@)]],
                    LAMBDA r : r["accident_date"].k = "ts"))

\* line 153
CoerceDate(df) ==
    Frame(df.columns,
          [i \in 1..Len(df.rows) |->
               [df.rows[i] EXCEPT !["accident_date"] = ToDatetime(@)]])

\* The cell sanitize_json_field's return value makes.
AsCell(r) == IF r.none THEN None ELSE Str(r.text)

\* The outcome of clean_and_transform_data: exc the exception raised ("" for
\* none), arg the caller's frame as the call left it, df the frame returned.
Transformed(exc, arg, df) == [exc |-> exc, arg |-> arg, df |-> df]

NoFrame == Frame(<<>>, <<>>)

\* The first exception in a list of outcomes, "" for none.
FirstExc(res) ==
    IF \A i \in 1..Len(res) : res[i].exc = "" THEN ""
    ELSE res[CHOOSE i \in 1..Len(res) :
                 res[i].exc # "" /\ \A j \in 1..(i - 1) : res[j].exc = ""].exc

\* The frame with column col set to the outcomes res, or the exception that
\* ended the apply.
Applied(r, col, res) ==
    IF FirstExc(res) # "" THEN Transformed(FirstExc(res), r.arg, NoFrame)
    ELSE Transformed("", r.arg,
             Frame(r.df.columns,
                   [i \in 1..Len(r.df.rows) |->
                        [r.df.rows[i] EXCEPT ![col] = AsCell(res[i])]]))

\* lines 156-158: df[json_col].apply(sanitize_json_field), for one json_col.
SanitizeColumn(r, col) ==
    IF r.exc # "" \/ col \notin Range(r.df.columns) THEN r
    ELSE Applied(r, col,
             [i \in 1..Len(r.df.rows) |-> sanitize_json_field(r.df.rows[i][col])])

\* lines 149-158, on the projected frame: df["accident_id"] and
\* df["accident_date"] raise KeyError when the column is not there.
Coerce(arg, projected) ==
    IF "accident_id" \notin Range(projected.columns)
    THEN Transformed("KeyError", arg, NoFrame)
    ELSE IF "accident_date" \notin Range(projected.columns)
    THEN Transformed("KeyError", arg, NoFrame)
    ELSE SanitizeColumn(
             SanitizeColumn(Transformed("", arg, CoerceDate(CoerceId(projected))),
                            "casualties"),
             "vehicles")

\* lines 147-160, on the caller's frame as lines 132-140 left it.
ProjectAndCoerce(arg) == Coerce(arg, Project(arg))

clean_and_transform_data(df0) == ProjectAndCoerce(Rename(DropType(df0)))

-----------------------------------------------------------------------------
(* The bulk-copy wire format and the destination table.                     *)

\* line 210: chunk.to_csv(sep='\t', header=False, index=False): a missing
\* value is written as na_rep, whose default is the empty string.
CellText(cell) == IF cell.k \in {"nan", "none", "nat"} THEN "" ELSE cell.s

ToCsv(frame) ==
    [i \in 1..Len(frame.rows) |->
         [j \in 1..Len(frame.columns) |-> CellText(frame.rows[i][frame.columns[j]])]]

\* line 215: the column list of the COPY statement.
CopyColumns ==
    <<"accident_id", "lat", "lon", "location", "accident_date",
      "severity", "borough", "casualties", "vehicles">>

\* line 216: NULL 'NULL'
NullSentinel == "NULL"

\* lines 58-66: the columns recreate_table creates.
FixedSchema ==
    <<[name |-> "accident_id", type |-> "INTEGER"],
      [name |-> "lat", type |-> "FLOAT"],
      [name |-> "lon", type |-> "FLOAT"],
      [name |-> "location", type |-> "TEXT"],
      [name |-> "accident_date", type |-> "TIMESTAMP"],
      [name |-> "severity", type |-> "TEXT"],
      [name |-> "borough", type |-> "TEXT"],
      [name |-> "casualties", type |-> "JSONB"],
      [name |-> "vehicles", type |-> "JSONB"]>>

FloatTexts == {"51.5", "-0.1"} \cup IntTexts \cup {t \o ".0" : t \in IntTexts}

\* Whether PostgreSQL's input function of the type accepts the text.
Accepts(type, s) ==
    CASE type = "INTEGER" -> s \in IntTexts
      [] type = "FLOAT" -> s \in FloatTexts
      [] type = "TIMESTAMP" -> s \in {DateIn, DateOut}
      [] type = "JSONB" -> s \in ValidJsonTexts
      [] OTHER -> TRUE

SqlNull == [null |-> TRUE, s |-> ""]
SqlValue(s) == [null |-> FALSE, s |-> s]

NamesOf(schema) == {schema[i].name : i \in 1..Len(schema)}
TypeOf(schema, name) == schema[CHOOSE i \in 1..Len(schema) : schema[i].name = name].type

\* A table: whether it exists, its columns, and its rows.  A row holds its
\* columns' values and, for the properties only, the source row it was
\* loaded from.
Table(exists, schema, rows) == [exists |-> exists, schema |-> schema, rows |-> rows]
NoTable == Table(FALSE, <<>>, {})
EmptyTable == Table(TRUE, FixedSchema, {})

\* One row of COPY ... FROM STDIN WITH CSV over the column list: a field
\* equal to the NULL string is null, any other field goes through the
\* column's input function; a column the list does not name is null.
CopyRowOk(schema, fields) ==
    /\ Len(fields) = Len(CopyColumns)
    /\ \A j \in 1..Len(CopyColumns) :
         \/ fields[j] = NullSentinel
         \/ Accepts(TypeOf(schema, CopyColumns[j]), fields[j])

CopyRow(schema, fields, src) ==
    [src |-> src,
     cols |-> [c \in NamesOf(schema) |->
                  IF c \in Range(CopyColumns)
                  THEN LET j == CHOOSE k \in 1..Len(CopyColumns) : CopyColumns[k] = c
                       IN  IF fields[j] = NullSentinel THEN SqlNull ELSE SqlValue(fields[j])
                  ELSE SqlNull]]

\* The primary key of the table: accident_id, not null and unique.
KeyOk(rows) ==
    /\ \A r \in rows : ~r.cols["accident_id"].null
    /\ \A r1, r2 \in rows :
         r1.cols["accident_id"] = r2.cols["accident_id"] => r1 = r2

\* The table with the rows added, when they are as many as the buffer's rows
\* and the key holds.
Inserted(tbl, new, n) ==
    IF Cardinality(new) = n /\ KeyOk(tbl.rows \cup new)
    THEN [ok |-> TRUE, table |-> [tbl EXCEPT !.rows = @ \cup new]]
    ELSE [ok |-> FALSE, table |-> tbl]

\* line 219: cur.copy_expert(copy_sql, csv_buffer).  srcs[i] names the source
\* row of buffer row i.  The statement is all or nothing.
CopyExpert(tbl, buffer, srcs) ==
    IF /\ tbl.exists
       /\ Range(CopyColumns) \subseteq NamesOf(tbl.schema)
       /\ \A i \in 1..Len(buffer) : CopyRowOk(tbl.schema, buffer[i])
    THEN Inserted(tbl,
                  {CopyRow(tbl.schema, buffer[i], srcs[i]) : i \in 1..Len(buffer)},
                  Len(buffer))
    ELSE [ok |-> FALSE, table |-> tbl]

-----------------------------------------------------------------------------
(* Source rows.  A source row is the text of its fields; pd.read_csv makes  *)
(* the cells.                                                               *)

\* The columns of a source written by ingest_data.py: the API's fields and
\* the year added at ingest_data.py line 67.
RawHeader ==
    <<"$type", "id", "lat", "lon", "location", "date", "severity", "borough",
      "casualties", "vehicles", "year">>

\* pd.read_csv: an empty field is a missing value.
ReadCell(text) == IF text = "" THEN NaN ELSE Str(text)

GoodCasualties == RenderPy(List(<<Dict(<<Pair("$type", StrX), Pair("age", Int30)>>)>>))
GoodVehicles == RenderPy(List(<<Dict(<<Pair("$type", StrX)>>)>>))

\* The text of column c in a source row with the given id, date, borough and
\* casualties; the other fields are the same in every row.
FieldText(c, id, date, borough, cas) ==
    CASE c \in {"id", "accident_id"} -> id
      [] c \in {"date", "accident_date"} -> date
      [] c = "borough" -> borough
      [] c = "casualties" -> cas
      [] c = "vehicles" -> GoodVehicles
      [] c = "lat" -> "51.5"
      [] c = "lon" -> "-0.1"
      [] c = "location" -> "High Street"
      [] c = "severity" -> "Slight"
      [] c = "year" -> "2015"
      [] OTHER -> "AccidentDetail"

SourceRow(id, date, borough, cas) ==
    [id |-> id, date |-> date, borough |-> borough, cas |-> cas]

\* The frame pd.read_csv makes of source rows under a header.
ReadFrame(header, srcRows) ==
    Frame(header,
          [i \in 1..Len(srcRows) |->
               [c \in Range(header) |->
                    ReadCell(FieldText(c, srcRows[i].id, srcRows[i].date,
                                       srcRows[i].borough, srcRows[i].cas))]])

-----------------------------------------------------------------------------
(* The state outside the step being taken.                                  *)

NoTxn == [active |-> FALSE, table |-> NoTable]
InTxn(tbl) == [active |-> TRUE, table |-> tbl]

NoResult == Transformed("pending", NoFrame, NoFrame)

\* A close that is skipped when an exception is on its way out, as that of
\* a conn.close() at the end of the try body would be.
CloseUnlessRaised(c) == IF c = "broken" THEN c ELSE "closed"

\* lines 78 and 231: conn.close() in the finally clause, on a connection
\* that is open or has dropped.
Close(c) == "closed"

\* A log record: file is the index of the source it names (0 for none),
\* rows and total the counts it reports.  For the properties only, rows is
\* in an error record of load_csv_in_batches the rows of the source in the
\* chunks before the failing one, and in the record of recreate_table the
\* rows the table held.
Logged(level, event, file, rows, total) ==
    [level |-> level, event |-> event, file |-> file, rows |-> rows, total |-> total]

sanVars == <<field, sanitized>>
chunkVars == <<chunk, result, csv_buffer>>
dbVars == <<conn, txn, table>>
runVars == <<pc, files, disk, fileIdx, pos, total_rows, error, log, runs>>
ingestVars == <<jsonl_files, bucket>>
vars == <<sanVars, chunkVars, dbVars, runVars, ingestVars>>

SanitizeIdle == field = NaN /\ sanitized = Pending
IngestIdle == jsonl_files = <<>> /\ bucket = {}

-----------------------------------------------------------------------------
(* The body of the loop of load_csv_in_batches, lines 202-223.              *)

\* line 206: chunk = clean_and_transform_data(chunk)
TransformChunk ==
    /\ pc = "transform"
    /\ result' = clean_and_transform_data(chunk)
    /\ pc' = IF result'.exc = "" THEN "serialize" ELSE "except"
    /\ error' = result'.exc
    /\ UNCHANGED <<sanVars, ingestVars, dbVars, chunk, csv_buffer>>
    /\ UNCHANGED <<files, disk, fileIdx, pos, total_rows, log, runs>>

\* lines 209-211: the chunk written to csv_buffer
SerializeChunk ==
    /\ pc = "serialize"
    /\ csv_buffer' = ToCsv(result.df)
    /\ pc' = "copy"
    /\ UNCHANGED <<sanVars, ingestVars, dbVars, chunk, result>>
    /\ UNCHANGED <<files, disk, fileIdx, pos, total_rows, error, log, runs>>

\* The source rows of the buffer's rows: row i of the chunk is row
\* pos - Len(chunk.rows) + i of source fileIdx, loaded by run runs.
ChunkSrcs ==
    [i \in 1..Len(csv_buffer) |-> <<runs, fileIdx, pos - Len(chunk.rows) + i>>]

\* The table a statement of the connection works on: the transaction's, or
\* the committed one when the statement begins a transaction.
Seen == IF txn.active THEN txn.table ELSE table

\* The state after copy_expert, from its outcome.
AfterCopy(dropped, done) ==
    IF dropped
    THEN conn' = "broken" /\ txn' = NoTxn
         /\ pc' = "except" /\ error' = "OperationalError"
    ELSE IF done.ok
    THEN conn' = conn /\ txn' = InTxn(done.table)
         /\ pc' = "commit" /\ error' = error
    ELSE conn' = conn /\ txn' = InTxn(Seen)
         /\ pc' = "except" /\ error' = "DataError"

\* lines 218-219: cur.copy_expert(copy_sql, csv_buffer).  The server refuses
\* the data (the transaction is then aborted), or the connection drops, or
\* the rows are in the transaction.
CopyChunk ==
    /\ pc = "copy"
    /\ conn = "open"
    /\ \E dropped \in BOOLEAN :
         AfterCopy(dropped, CopyExpert(Seen, csv_buffer, ChunkSrcs))
    /\ UNCHANGED <<sanVars, ingestVars, chunkVars, table>>
    /\ UNCHANGED <<files, disk, fileIdx, pos, total_rows, log, runs>>

\* A commit that does not reach the table: what the chunks before a failing
\* one would come to were they committed with it, once per source.
CommitLost(tbl, tx) == tbl

\* line 220: conn.commit() makes the transaction's table the committed one.
Commit(tbl, tx) == tx.table

\* A total that counts the chunk before conn.commit() is called.
CountedBeforeCommit(total, n, raised) == total + n

\* line 222: total_rows += len(chunk), which a commit that raised skips.
Counted(total, n, raised) == IF raised THEN total ELSE total + n

\* lines 220-223: conn.commit(), then the running total and its log record.
\* The connection drops before the server commits, or the transaction is
\* committed.
CommitChunk ==
    /\ pc = "commit"
    /\ conn = "open"
    /\ \E dropped \in BOOLEAN :
         /\ total_rows' = Counted(total_rows, Len(result.df.rows), dropped)
         /\ IF dropped
            THEN /\ conn' = "broken" /\ txn' = NoTxn /\ table' = table
                 /\ pc' = "except" /\ error' = "OperationalError"
                 /\ log' = log
            ELSE /\ conn' = conn /\ txn' = NoTxn /\ table' = Commit(table, txn)
                 /\ log' = Append(log, Logged("info", "uploaded", fileIdx,
                                              Len(result.df.rows), total_rows'))
                 /\ pc' = "read" /\ error' = error
    /\ UNCHANGED <<sanVars, ingestVars, chunkVars>>
    /\ UNCHANGED <<files, disk, fileIdx, pos, runs>>

-----------------------------------------------------------------------------
(* One chunk through the loop body, from every chunk of the model.          *)

\* The most rows in a chunk of the model.
MaxChunkRows == 2

BadDate == "31/31/2015"
IdTexts == {"1", "2", "abc", ""}
DateTexts == {DateIn, BadDate}
BoroughTexts == {"Camden", ""}
CasualtiesTexts == {GoodCasualties, "", RenderPy(List(<<Int1, Int30>>)), "not json"}

\* Rows of every id, date and casualties, and of every id, date and borough.
SourceRows ==
    {SourceRow(id, date, "Camden", cas) :
        id \in IdTexts, date \in DateTexts, cas \in CasualtiesTexts}
    \cup {SourceRow(id, date, borough, GoodCasualties) :
            id \in IdTexts, date \in DateTexts, borough \in BoroughTexts}

GoodRow(id) == SourceRow(id, DateIn, "Camden", GoodCasualties)

Without(seq, c) == SelectSeq(seq, LAMBDA x : x # c)

\* Headers with a column missing, with the target's names, in another order.
Headers ==
    {RawHeader, <<"id", "date">>, expected_columns,
     <<"year", "vehicles", "casualties", "borough", "severity", "date",
       "location", "lon", "lat", "id", "$type">>}
    \cup {Without(RawHeader, c) :
            c \in {"$type", "id", "date", "lat", "borough", "casualties", "year"}}

\* The sequences of up to max of the rows.
RowSeqs(rows, max) == UNION {[1..n -> rows] : n \in 0..max}

\* The chunks of up to max rows: any rows under the header of a source, and
\* good rows under any header.
ChunkInputs(max) ==
    {ReadFrame(RawHeader, rs) : rs \in RowSeqs(SourceRows, max)}
    \cup {ReadFrame(h, rs) :
            h \in Headers, rs \in RowSeqs({GoodRow("1"), GoodRow("2")}, max)}

InitChunk ==
    /\ SanitizeIdle /\ IngestIdle
    /\ pc = "transform"
    /\ files = <<>> /\ disk = {} /\ fileIdx = 1
    /\ chunk \in ChunkInputs(MaxChunkRows)
    /\ pos = Len(chunk.rows)
    /\ result = NoResult /\ csv_buffer = <<>>
    /\ total_rows = 0
    /\ conn = "open" /\ txn = NoTxn /\ table = EmptyTable
    /\ error = "" /\ log = <<>> /\ runs = 1

NextChunk == TransformChunk \/ SerializeChunk \/ CopyChunk \/ CommitChunk

SpecChunk == InitChunk /\ [][NextChunk]_vars

-----------------------------------------------------------------------------
(* recreate_table, lines 48-78.                                             *)

\* lines 169-180: the columns create_table creates, the schema of a table
\* left by an earlier version of the loader.
StaleSchema ==
    [i \in 1..Len(FixedSchema) |->
        IF FixedSchema[i].type = "JSONB"
        THEN [FixedSchema[i] EXCEPT !.type = "TEXT"]
        ELSE FixedSchema[i]]

\* A reset by CREATE TABLE IF NOT EXISTS, as create_table does it: it
\* succeeds on a table that exists and leaves it as it is.
CreateIfNotExists(tbl) ==
    [ok |-> TRUE, table |-> IF tbl.exists THEN tbl ELSE EmptyTable]

\* line 70: DROP TABLE IF EXISTS
DropIfExists(tbl) == NoTable

\* line 71: CREATE TABLE, an error when the table exists.
Create(tbl) ==
    IF tbl.exists THEN [ok |-> FALSE, table |-> tbl]
    ELSE [ok |-> TRUE, table |-> EmptyTable]

\* lines 70-72: the table the committed transaction leaves.
DropAndCreate(tbl) == Create(DropIfExists(tbl))

\* line 235.  connect_db returns None (lines 44-46, 51-52), or a statement
\* raises and nothing is committed (lines 75-76), or the transaction
\* commits.  Every outcome returns to process_pipeline, with the connection
\* that was opened closed (lines 77-78).
RecreateTable ==
    /\ pc = "recreate"
    /\ \E outcome \in {"refused", "raised", "committed"} :
         /\ IF outcome = "committed" /\ DropAndCreate(table).ok
            THEN /\ table' = DropAndCreate(table).table
                 /\ log' = Append(log, Logged("info", "recreated", 0,
                                              Cardinality(table.rows), 0))
            ELSE /\ table' = table
                 /\ log' = Append(log, Logged("error", outcome, 0, 0, 0))
         /\ conn' = IF outcome = "refused" THEN "none" ELSE Close("open")
    /\ pc' = "list"
    /\ UNCHANGED <<sanVars, ingestVars, chunkVars, txn>>
    /\ UNCHANGED <<files, disk, fileIdx, pos, total_rows, error, runs>>

-----------------------------------------------------------------------------
(* process_pipeline, lines 233-260.                                         *)

GzPath(i) == "accidents_" \o ToString(i) \o ".csv.gz"

\* line 246: local_gz_path.replace(".gz", "")
CsvPath(i) == "accidents_" \o ToString(i) \o ".csv"

\* line 238: the sources listed, by index.
LocalFiles == {i \in 1..Len(files) : GzPath(i) \in disk}

\* The statement after the body of the for loop at line 244: the next
\* local_file, or the end of process_pipeline.
NextFile == IF \E i \in LocalFiles : i > fileIdx THEN "extract" ELSE "done"
NextIdx == IF \E i \in LocalFiles : i > fileIdx
           THEN CHOOSE i \in LocalFiles : i > fileIdx /\ \A j \in LocalFiles : j > fileIdx => i <= j
           ELSE fileIdx

\* lines 238-242
ListFiles ==
    /\ pc = "list"
    /\ IF LocalFiles = {}
       THEN /\ pc' = "done"
            /\ log' = Append(log, Logged("warning", "no files", 0, 0, 0))
            /\ fileIdx' = fileIdx
       ELSE /\ pc' = "extract"
            /\ log' = log
            /\ fileIdx' = CHOOSE i \in LocalFiles : \A j \in LocalFiles : i <= j
    /\ UNCHANGED <<sanVars, ingestVars, chunkVars, dbVars>>
    /\ UNCHANGED <<files, disk, pos, total_rows, error, runs>>

\* lines 245-256: the source is decompressed beside itself, or gzip raises
\* and the loop continues with the next source.  open(local_csv_path, "wb")
\* has made the file in both cases.
Extract ==
    /\ pc = "extract"
    /\ disk' = disk \cup {CsvPath(fileIdx)}
    /\ \E extracted \in BOOLEAN :
         IF extracted
         THEN pc' = "connect" /\ fileIdx' = fileIdx /\ log' = log
         ELSE /\ pc' = NextFile /\ fileIdx' = NextIdx
              /\ log' = Append(log, Logged("error", "extract", fileIdx, 0, 0))
    /\ UNCHANGED <<sanVars, ingestVars, chunkVars, dbVars>>
    /\ UNCHANGED <<files, pos, total_rows, error, runs>>

-----------------------------------------------------------------------------
(* load_csv_in_batches, lines 192-231, around its loop body.                *)

\* The rows per chunk: batch_size, line 192 (10000 in the program).
BatchSize == 2

\* lines 194-201: connect_db returns None and the function returns, or the
\* connection is open and the reader is at the start of the source.
Connect ==
    /\ pc = "connect"
    /\ \E connected \in BOOLEAN :
         IF connected
         THEN /\ conn' = "open" /\ pc' = "read" /\ fileIdx' = fileIdx
              /\ log' = log
         ELSE /\ conn' = "none" /\ pc' = NextFile /\ fileIdx' = NextIdx
              /\ log' = Append(log, Logged("error", "refused", 0, 0, 0))
    /\ pos' = 0 /\ total_rows' = 0 /\ txn' = NoTxn
    /\ chunk' = NoFrame /\ result' = NoResult /\ csv_buffer' = <<>>
    /\ UNCHANGED <<sanVars, ingestVars, table, files, disk, error, runs>>

Min(a, b) == IF a < b THEN a ELSE b

\* A reader that gives one row per chunk.
NextRowsOne(file) == SubSeq(file.rows, pos + 1, Min(pos + 1, Len(file.rows)))

\* The rows of the next chunk: the next batch_size rows of the source, or
\* those that are left.
NextRows(file) == SubSeq(file.rows, pos + 1, Min(pos + BatchSize, Len(file.rows)))

\* line 202: the iterator gives the next chunk, or raises ParserError on a
\* line it cannot tokenize, or is exhausted.
ReadChunk ==
    /\ pc = "read"
    /\ IF pos = Len(files[fileIdx].rows)
       THEN pc' = "finish" /\ error' = error /\ UNCHANGED <<pos, chunk>>
       ELSE IF files[fileIdx].malformed \in (pos + 1)..(pos + BatchSize)
       THEN pc' = "except" /\ error' = "ParserError" /\ UNCHANGED <<pos, chunk>>
       ELSE /\ pc' = "transform" /\ error' = error
            /\ chunk' = ReadFrame(files[fileIdx].header, NextRows(files[fileIdx]))
            /\ pos' = pos + Len(NextRows(files[fileIdx]))
    /\ UNCHANGED <<sanVars, ingestVars, dbVars, result, csv_buffer>>
    /\ UNCHANGED <<files, disk, fileIdx, total_rows, log, runs>>

\* lines 225-226: cur.close() and the log record of the finished load.  The
\* sources of the model have a row, so the loop body has bound cur.
FinishFile ==
    /\ pc = "finish"
    /\ pc' = "finally"
    /\ log' = Append(log, Logged("info", "finished", fileIdx, 0, total_rows))
    /\ UNCHANGED <<sanVars, ingestVars, chunkVars, dbVars>>
    /\ UNCHANGED <<files, disk, fileIdx, pos, total_rows, error, runs>>

\* The rows of the source in the chunks before the one that raised: the
\* iterator raises before it gives the chunk, the loop body after.
BeforeFailing ==
    IF error = "ParserError" THEN pos
    ELSE pos - Len(chunk.rows)

\* lines 227-229: the error is logged with the source's name, then
\* conn.rollback().  On a connection that has dropped, or that drops now,
\* rollback raises, and that exception leaves the except clause.
HandleError ==
    /\ pc = "except"
    /\ log' = Append(log, Logged("error", error, fileIdx, BeforeFailing, 0))
    /\ \E dropped \in BOOLEAN :
         IF conn = "broken" \/ dropped
         THEN conn' = "broken" /\ error' = "InterfaceError"
         ELSE conn' = conn /\ error' = ""
    /\ txn' = NoTxn
    /\ pc' = "finally"
    /\ UNCHANGED <<sanVars, ingestVars, chunkVars, table>>
    /\ UNCHANGED <<files, disk, fileIdx, pos, total_rows, runs>>

\* lines 230-231: conn.close().  An exception on its way out leaves
\* load_csv_in_batches and, with no handler at line 260, process_pipeline.
CloseConn ==
    /\ pc = "finally"
    /\ conn' = Close(conn)
    /\ txn' = NoTxn
    /\ IF error # ""
       THEN pc' = "aborted" /\ fileIdx' = fileIdx
       ELSE pc' = NextFile /\ fileIdx' = NextIdx
    /\ UNCHANGED <<sanVars, ingestVars, chunkVars, table>>
    /\ UNCHANGED <<files, disk, pos, total_rows, error, log, runs>>

\* The runs of the model.
MaxRuns == 2

\* lines 262-266: the script is started again, on the storage and the
\* database the run before left.
Rerun ==
    /\ pc \in {"done", "aborted"}
    /\ runs < MaxRuns
    /\ runs' = runs + 1
    /\ pc' = "recreate"
    /\ fileIdx' = 1 /\ pos' = 0 /\ total_rows' = 0
    /\ error' = "" /\ log' = <<>>
    /\ conn' = "none" /\ txn' = NoTxn
    /\ chunk' = NoFrame /\ result' = NoResult /\ csv_buffer' = <<>>
    /\ UNCHANGED <<sanVars, ingestVars, table, files, disk>>

-----------------------------------------------------------------------------
(* Runs of process_pipeline on the sources of the model.                    *)

\* A source: its header, its rows, and the row whose line cannot be
\* tokenized (0 for none).
Source(header, rows, malformed) ==
    [header |-> header, rows |-> rows, malformed |-> malformed]

\* The id of row j of source i: distinct over the sources of the model.
IdOf(i, j) == ToString((i - 1) * MaxFileRows + j)

\* Source i with n rows, all good but for the defect at row at.
ShapedSource(i, n, defect, at) ==
    Source(RawHeader,
           [j \in 1..n |->
                IF j = at /\ defect = "bad id" THEN GoodRow("abc") ELSE GoodRow(IdOf(i, j))],
           IF defect = "malformed" THEN at ELSE 0)

Defects == {"bad id", "malformed"}

Shapes ==
    {<<n, "none", 0>> : n \in 1..MaxFileRows}
    \cup {<<n, d, at>> : n \in 1..MaxFileRows, d \in Defects, at \in 1..MaxFileRows}

\* The lists of k sources.
SourceListsOf(k) ==
    {[i \in 1..k |-> ShapedSource(i, sh[i][1], sh[i][2], sh[i][3])] :
        sh \in [1..k -> {x \in Shapes : x[3] <= x[1]}]}

SourceLists == UNION {SourceListsOf(k) : k \in 0..MaxFiles}

\* A row an earlier run loaded.
OldRow(schema) ==
    [src |-> <<0, 0, 1>>,
     cols |-> [c \in NamesOf(schema) |-> IF c = "accident_id" THEN SqlValue("1") ELSE SqlNull]]

\* The table before the first run: none, the one an earlier version of the
\* loader created, or the one an earlier run loaded.
PriorTables ==
    {NoTable,
     Table(TRUE, StaleSchema, {OldRow(StaleSchema)}),
     Table(TRUE, FixedSchema, {OldRow(FixedSchema)})}

Init ==
    /\ SanitizeIdle /\ IngestIdle
    /\ pc = "recreate"
    /\ files \in SourceLists
    /\ disk = {GzPath(i) : i \in 1..Len(files)}
    /\ fileIdx = 1 /\ pos = 0 /\ total_rows = 0
    /\ chunk = NoFrame /\ result = NoResult /\ csv_buffer = <<>>
    /\ conn = "none" /\ txn = NoTxn
    /\ table \in PriorTables
    /\ error = "" /\ log = <<>> /\ runs = 1

Next ==
    \/ RecreateTable
    \/ ListFiles
    \/ Extract
    \/ Connect
    \/ ReadChunk
    \/ TransformChunk
    \/ SerializeChunk
    \/ CopyChunk
    \/ CommitChunk
    \/ FinishFile
    \/ HandleError
    \/ CloseConn
    \/ Rerun

Spec == Init /\ [][Next]_vars

-----------------------------------------------------------------------------
(* Runs of process_pipeline with at most one source in LOCAL_STORAGE: every *)
(* load is one call of load_csv_in_batches on that source.                  *)

InitLoad ==
    /\ SanitizeIdle /\ IngestIdle
    /\ pc = "recreate"
    /\ files \in SourceListsOf(0) \cup SourceListsOf(1)
    /\ disk = {GzPath(i) : i \in 1..Len(files)}
    /\ fileIdx = 1 /\ pos = 0 /\ total_rows = 0
    /\ chunk = NoFrame /\ result = NoResult /\ csv_buffer = <<>>
    /\ conn = "none" /\ txn = NoTxn
    /\ table \in PriorTables
    /\ error = "" /\ log = <<>> /\ runs = 1

SpecLoad == InitLoad /\ [][Next]_vars

-----------------------------------------------------------------------------
(* One run of process_pipeline over several sources: each has one chunk or  *)
(* more, all good, or its first line or its last cannot be tokenized, or    *)
(* its last row has a bad id.                                               *)

RunShapes ==
    {<<1, "none", 0>>, <<MaxFileRows, "none", 0>>,
     <<MaxFileRows, "malformed", 1>>, <<MaxFileRows, "malformed", MaxFileRows>>,
     <<MaxFileRows, "bad id", MaxFileRows>>}

RunLists(k) ==
    {[i \in 1..k |-> ShapedSource(i, sh[i][1], sh[i][2], sh[i][3])] :
        sh \in [1..k -> RunShapes]}

InitRun ==
    /\ SanitizeIdle /\ IngestIdle
    /\ pc = "recreate"
    /\ \E k \in 0..MaxFiles : files \in RunLists(k)
    /\ disk = {GzPath(i) : i \in 1..Len(files)}
    /\ fileIdx = 1 /\ pos = 0 /\ total_rows = 0
    /\ chunk = NoFrame /\ result = NoResult /\ csv_buffer = <<>>
    /\ conn = "none" /\ txn = NoTxn
    /\ table \in PriorTables
    /\ error = "" /\ log = <<>> /\ runs = 1

NextRun ==
    \/ RecreateTable
    \/ ListFiles
    \/ Extract
    \/ Connect
    \/ ReadChunk
    \/ TransformChunk
    \/ SerializeChunk
    \/ CopyChunk
    \/ CommitChunk
    \/ FinishFile
    \/ HandleError
    \/ CloseConn

SpecRun == InitRun /\ [][NextRun]_vars

-----------------------------------------------------------------------------
(* Calls of sanitize_json_field on one field.                               *)

Garbage == {"{'age': ", "not json"}

SanitizeInputs ==
    {NaN} \cup {Str(s) : s \in PyTexts \cup JsonTexts \cup Blanks \cup Garbage}

PipelineIdle ==
    /\ IngestIdle
    /\ pc = "idle"
    /\ files = <<>> /\ disk = {} /\ fileIdx = 1 /\ pos = 0
    /\ chunk = NoFrame /\ result = NoResult /\ csv_buffer = <<>>
    /\ total_rows = 0
    /\ conn = "none" /\ txn = NoTxn /\ table = NoTable
    /\ error = "" /\ log = <<>> /\ runs = 1

InitSanitize ==
    /\ field \in SanitizeInputs
    /\ sanitized = Pending
    /\ PipelineIdle

CallSanitize ==
    /\ sanitized = Pending
    /\ pc = "idle"
    /\ sanitized' = sanitize_json_field(field)
    /\ UNCHANGED <<field, ingestVars, chunkVars, dbVars, runVars>>

\* The text a call returned is the field of the next call.
SanitizeAgain ==
    /\ pc = "idle"
    /\ sanitized.exc = "" /\ ~sanitized.none
    /\ field # Str(sanitized.text)
    /\ field' = Str(sanitized.text)
    /\ sanitized' = sanitize_json_field(Str(sanitized.text))
    /\ UNCHANGED <<ingestVars, chunkVars, dbVars, runVars>>

NextSanitize == CallSanitize \/ SanitizeAgain

SpecSanitize == InitSanitize /\ [][NextSanitize]_vars

-----------------------------------------------------------------------------
(* ingest_data.py: move_and_transform_data, jsonl_to_csv and upload_to_gcs, *)
(* after pipeline.run has written its JSONL files, lines 76-79.             *)

\* The most JSONL files the dlt pipeline writes.
MaxJsonl == 3

\* The files dlt writes have distinct names.
JsonlName(i) == "tfl_accidents_raw." \o ToString(i) \o ".jsonl"

\* ingest_data.py line 114: os.path.basename(jsonl_file).replace(".jsonl", ".csv")
CsvName(i) == "tfl_accidents_raw." \o ToString(i) \o ".csv"

\* ingest_data.py lines 102-103: src_path under the dlt output directory
\* and dest_path in LOCAL_STORAGE.
DltPath(i) == "tfl_accidents/" \o JsonlName(i)
JsonlPath(i) == JsonlName(i)

\* ingest_data.py line 114: csv_path under CSV_STORAGE.
CsvOutPath(i) == "csv_output/" \o CsvName(i)

\* ingest_data.py lines 147 and 156: the names of the blobs.
RawBlob(i) == "raw/jsonl/" \o JsonlName(i)
CsvBlob(i) == "processed/csv/" \o CsvName(i)

\* ingest_data.py lines 98-107: every JSONL file under the dlt output
\* directory is moved to LOCAL_STORAGE.
MoveFiles ==
    /\ pc = "move"
    /\ jsonl_files' = SelectSeq([i \in 1..MaxJsonl |-> i], LAMBDA i : DltPath(i) \in disk)
    /\ disk' = {JsonlPath(i) : i \in {j \in 1..MaxJsonl : DltPath(j) \in disk}}
    /\ pc' = "convert" /\ fileIdx' = 1
    /\ UNCHANGED <<sanVars, chunkVars, dbVars, bucket>>
    /\ UNCHANGED <<files, pos, total_rows, error, log, runs>>

\* A loop body that removes the JSONL file whether jsonl_to_csv raised or
\* not.
RemovedAnyway(d, i, raised, written) ==
    (IF raised = "jsonl_to_csv" /\ ~written THEN d ELSE d \cup {CsvOutPath(i)})
        \ {JsonlPath(i)}

\* ingest_data.py lines 115-118, the body of the try statement, on file i:
\* jsonl_to_csv raises, having written the CSV file or not, or it returns
\* and os.remove raises, or the JSONL file is removed.
Converted(d, i, raised, written) ==
    IF raised = "jsonl_to_csv" THEN (IF written THEN d \cup {CsvOutPath(i)} ELSE d)
    ELSE IF raised = "os.remove" THEN d \cup {CsvOutPath(i)}
    ELSE (d \cup {CsvOutPath(i)}) \ {JsonlPath(i)}

\* ingest_data.py lines 136, 119 and 121: what is printed for file i.
Printed(lg, i, raised) ==
    IF raised = "jsonl_to_csv"
    THEN Append(lg, Logged("error", "convert", i, 0, 0))
    ELSE IF raised = "os.remove"
    THEN Append(Append(lg, Logged("info", "converted", i, 0, 0)),
                Logged("error", "convert", i, 0, 0))
    ELSE Append(Append(lg, Logged("info", "converted", i, 0, 0)),
                Logged("info", "deleted", i, 0, 0))

\* ingest_data.py lines 111-121: one iteration of the loop over jsonl_files.
ConvertFile ==
    /\ pc = "convert"
    /\ fileIdx <= Len(jsonl_files)
    /\ \E raised \in {"", "jsonl_to_csv", "os.remove"}, written \in BOOLEAN :
         /\ disk' = Converted(disk, jsonl_files[fileIdx], raised, written)
         /\ log' = Printed(log, jsonl_files[fileIdx], raised)
    /\ fileIdx' = fileIdx + 1
    /\ UNCHANGED <<sanVars, ingestVars, chunkVars, dbVars>>
    /\ UNCHANGED <<pc, files, pos, total_rows, error, runs>>

\* ingest_data.py line 123, and line 79: upload_to_gcs is called.
EndConvert ==
    /\ pc = "convert"
    /\ fileIdx > Len(jsonl_files)
    /\ pc' = "upload_jsonl"
    /\ UNCHANGED <<sanVars, ingestVars, chunkVars, dbVars>>
    /\ UNCHANGED <<files, disk, fileIdx, pos, total_rows, error, log, runs>>

\* The files the loops of upload_to_gcs have still to upload.
JsonlToUpload == {i \in 1..MaxJsonl : JsonlPath(i) \in disk /\ RawBlob(i) \notin bucket}
CsvToUpload == {i \in 1..MaxJsonl : CsvOutPath(i) \in disk /\ CsvBlob(i) \notin bucket}

\* ingest_data.py lines 144-150: the .jsonl files in LOCAL_STORAGE, in the
\* order of os.listdir, are uploaded; a failed upload raises out of
\* load_tfl_data.
UploadJsonl ==
    /\ pc = "upload_jsonl"
    /\ IF JsonlToUpload = {}
       THEN pc' = "upload_csv" /\ bucket' = bucket
       ELSE \E i \in JsonlToUpload, uploaded \in BOOLEAN :
              IF uploaded
              THEN pc' = pc /\ bucket' = bucket \cup {RawBlob(i)}
              ELSE pc' = "upload failed" /\ bucket' = bucket
    /\ UNCHANGED <<sanVars, chunkVars, dbVars, jsonl_files>>
    /\ UNCHANGED <<files, disk, fileIdx, pos, total_rows, error, log, runs>>

\* ingest_data.py lines 153-159: the files in CSV_STORAGE are uploaded.
UploadCsv ==
    /\ pc = "upload_csv"
    /\ IF CsvToUpload = {}
       THEN pc' = "ingested" /\ bucket' = bucket
       ELSE \E i \in CsvToUpload, uploaded \in BOOLEAN :
              IF uploaded
              THEN pc' = pc /\ bucket' = bucket \cup {CsvBlob(i)}
              ELSE pc' = "upload failed" /\ bucket' = bucket
    /\ UNCHANGED <<sanVars, chunkVars, dbVars, jsonl_files>>
    /\ UNCHANGED <<files, disk, fileIdx, pos, total_rows, error, log, runs>>

\* The state after pipeline.run, line 72: the JSONL files it wrote are
\* under the dlt output directory, and the bucket is empty.
InitIngest ==
    /\ SanitizeIdle /\ IngestIdle
    /\ pc = "move"
    /\ files = <<>>
    /\ \E k \in 1..MaxJsonl : disk = {DltPath(i) : i \in 1..k}
    /\ fileIdx = 1 /\ pos = 0 /\ total_rows = 0
    /\ chunk = NoFrame /\ result = NoResult /\ csv_buffer = <<>>
    /\ conn = "none" /\ txn = NoTxn /\ table = NoTable
    /\ error = "" /\ log = <<>> /\ runs = 1

NextIngest == MoveFiles \/ ConvertFile \/ EndConvert \/ UploadJsonl \/ UploadCsv

SpecIngest == InitIngest /\ [][NextIngest]_vars

-----------------------------------------------------------------------------
(* Properties.                                                              *)

\* Whether row j of source f, as loaded by the run, is in the table.
Present(run, f, j) == \E r \in table.rows : r.src = <<run, f, j>>

\* The log records of load_csv_in_batches's except clause.
LoadErrors ==
    {n \in 1..Len(log) :
        log[n].level = "error" /\ log[n].file # 0 /\ log[n].event # "extract"}

HasError(f) == \E n \in LoadErrors : log[n].file = f
HasFinished(f) == \E n \in 1..Len(log) : log[n].event = "finished" /\ log[n].file = f

\* C1: chunk isolation.  When the load of a source has failed at a chunk,
\* the rows of the chunks before it, a whole number of chunks, are in the
\* committed table and no later row of the source is; and a load that ends
\* with a row of the source missing from the table has logged the error for
\* the source and no completion.
C1_ChunkIsolation ==
    /\ \A n \in LoadErrors :
         /\ log[n].rows % BatchSize = 0
         /\ \A j \in 1..Len(files[log[n].file].rows) :
              Present(runs, log[n].file, j) <=> j <= log[n].rows
    /\ (pc = "finally" /\ \E j \in 1..Len(files[fileIdx].rows) : ~Present(runs, fileIdx, j))
         => HasError(fileIdx) /\ ~HasFinished(fileIdx)

\* A run has ended in which a source failed at its second chunk, whose
\* first chunk is in the table.
C1_Witness ==
    /\ pc = "done"
    /\ \E n \in LoadErrors :
         /\ log[n].rows = BatchSize
         /\ \A j \in 1..BatchSize : Present(runs, log[n].file, j)
         /\ ~Present(runs, log[n].file, BatchSize + 1)

\* C2: the lifecycle of a source.  When the run has ended, a source whose
\* load finished with all its chunks committed has been deleted, and a
\* source whose extraction or load failed is still in place.
C2_LoadedIsDeleted ==
    pc = "done" =>
        \A f \in 1..Len(files) :
            /\ HasFinished(f) => GzPath(f) \notin disk
            /\ ~HasFinished(f) => GzPath(f) \in disk

\* The first record of a run's log is recreate_table's.
RecreateFailed ==
    log # <<>> /\ log[1].level = "error" /\ log[1].event \in {"refused", "raised"}

\* The steps of the loop over the sources, lines 244-260.
FileSteps ==
    {"extract", "connect", "read", "transform", "serialize", "copy", "commit",
     "finish", "except", "finally"}

\* C3: a failed schema reset is fatal for the run.  After recreate_table has
\* failed, the run is at no step of extracting, connecting for or loading a
\* source.
C3_ResetFailureAborts == RecreateFailed => pc \notin FileSteps

\* C4: isolation of a failure to its source.  No failure in one source,
\* a failing rollback on a dropped connection included, ends the run before
\* the sources after it are tried.
C4_RunNeverAborts == pc # "aborted"

\* The column of the chunk read that holds the ids.
IdColumn(df) == IF "id" \in Range(df.columns) THEN "id" ELSE "accident_id"

\* The rows of the chunk read whose id is a number.
ValidIdRows(df) ==
    {i \in 1..Len(df.rows) : ~IsNa(ToNumeric(df.rows[i][IdColumn(df)]))}

\* C5: accident_id coercion.  The chunk clean_and_transform_data returns has
\* one row for each row read whose id is a number, with that integer as its
\* accident_id, and none for a row whose id is not a number; no row returned
\* has a null accident_id.
C5_InvalidIdsDropped ==
    result.exc = "" =>
        /\ \A i \in 1..Len(result.df.rows) :
             result.df.rows[i]["accident_id"].k = "int"
        /\ Len(result.df.rows) = Cardinality(ValidIdRows(chunk))

\* C6: sanitize_json_field never raises.  Whatever the field, the call
\* returns, and returns null or valid JSON text.
C6_NeverRaises ==
    sanitized # Pending =>
        /\ sanitized.exc = ""
        /\ sanitized.none \/ sanitized.text \in ValidJsonTexts

\* The log records of the chunks of source f that were committed, in order.
Uploaded(f) == SelectSeq(log, LAMBDA r : r.event = "uploaded" /\ r.file = f)

Ceil(n, c) == (n + c - 1) \div c

\* The size of chunk k of a source of n rows.
ChunkSize(k, n) == IF k * BatchSize <= n THEN BatchSize ELSE n - (k - 1) * BatchSize

\* The chunk in the loop body is the next rows of the source in stream
\* order, from a multiple of the chunk size on.
InStreamOrder(file, from) ==
    /\ from % BatchSize = 0
    /\ Len(chunk.rows) = Min(BatchSize, Len(file.rows) - from)
    /\ chunk = ReadFrame(file.header, SubSeq(file.rows, from + 1, pos))

\* How many rows of the table are loaded from row j of source f, and how
\* many have its id.
TimesLoaded(f, j) == Cardinality({r \in table.rows : r.src = <<runs, f, j>>})
TimesKeyed(id) ==
    Cardinality({r \in table.rows : r.cols["accident_id"] = SqlValue(id)})

\* C7: exactly-once chunked load.  A source of N rows, N at least 1 in the
\* model, whose load finished was loaded in ceil(N/c) chunks, each of c rows
\* but the last, which has the rest; every chunk in the loop body is the next rows of the source in
\* stream order; and every row of the source, and every accident_id of it,
\* is in the table exactly once.
C7_ExactlyOnce ==
    /\ pc \in {"transform", "serialize", "copy", "commit"} =>
         InStreamOrder(files[fileIdx], pos - Len(chunk.rows))
    /\ \A f \in 1..Len(files) :
         HasFinished(f) =>
           /\ Len(Uploaded(f)) = Ceil(Len(files[f].rows), BatchSize)
           /\ \A k \in 1..Len(Uploaded(f)) :
                Uploaded(f)[k].rows = ChunkSize(k, Len(files[f].rows))
           /\ \A j \in 1..Len(files[f].rows) :
                TimesLoaded(f, j) = 1 /\ TimesKeyed(files[f].rows[j].id) = 1

\* The load of a source of more rows than a chunk has finished, in two
\* chunks.
C7_Witness ==
    \E f \in 1..Len(files) :
        /\ HasFinished(f)
        /\ Len(files[f].rows) > BatchSize
        /\ Len(Uploaded(f)) = 2
        /\ TimesLoaded(f, Len(files[f].rows)) = 1

\* Whether the buffer has been written from the chunk transformed.
Serialized == result.exc = "" /\ pc \notin {"transform", "serialize"}

\* C8: nulls through the wire format.  Every cell that is null after the
\* transformation is written to the buffer as the NULL string of the COPY
\* statement, and no row loaded holds an empty string.
C8_NullsAsSentinel ==
    Serialized =>
        /\ \A i \in 1..Len(result.df.rows) :
             \A j \in 1..Len(result.df.columns) :
                result.df.rows[i][result.df.columns[j]].k \in {"nan", "none", "nat"}
                    => csv_buffer[i][j] = NullSentinel
        /\ \A r \in table.rows :
             \A c \in NamesOf(table.schema) : r.cols[c] # SqlValue("")

\* C9: the column list of the insert.  clean_and_transform_data does not
\* raise for a column that is missing, and the column list of the COPY
\* statement is the list of the columns of the chunk it returns, so that
\* every row of the buffer has one field per column of the list.
C9_ColumnListMatches ==
    /\ result.exc # "KeyError"
    /\ result.exc = "" => CopyColumns = result.df.columns
    /\ Serialized => \A i \in 1..Len(csv_buffer) : Len(csv_buffer[i]) = Len(CopyColumns)

\* C10: the schema reset is a full refresh and idempotent.  A successful
\* recreate_table leaves, whatever the table was, the table of the fixed
\* nine columns with no rows, and a second reset of that table succeeds and
\* leaves the same.
C10_FullRefresh ==
    [][(pc = "recreate" /\ log'[Len(log')].event = "recreated")
          => /\ table' = EmptyTable
             /\ Len(table'.schema) = 9
             /\ DropAndCreate(table') = [ok |-> TRUE, table |-> table']]_vars

\* recreate_table has succeeded on a table that held a row.
C10_Witness ==
    /\ pc = "list"
    /\ log[1].event = "recreated" /\ log[1].rows > 0
    /\ table = EmptyTable

\* C11: sanitize_json_field is idempotent on its own output.  When the call
\* has returned valid JSON text, the call on that text returns the same
\* text.
C11_Idempotent ==
    [][(/\ pc = "idle"
        /\ sanitized.exc = "" /\ ~sanitized.none
        /\ sanitized.text \in ValidJsonTexts
        /\ field' = Str(sanitized.text))
          => sanitized' = sanitized]_vars

\* The JSONL files the pipeline wrote.
Produced == {jsonl_files[n] : n \in 1..Len(jsonl_files)}

\* C12: both formats reach the object store.  After a completed run every
\* JSONL file the pipeline wrote is in the bucket under raw/jsonl/ and its
\* CSV file under processed/csv/; and no JSONL file is deleted before it is
\* uploaded.
C12_BothFormatsUploaded ==
    /\ pc = "ingested" =>
         \A i \in Produced : RawBlob(i) \in bucket /\ CsvBlob(i) \in bucket
    /\ pc # "move" =>
         \A i \in Produced : JsonlPath(i) \notin disk => RawBlob(i) \in bucket

\* Whether the record of the event for JSONL file i has been printed.
HasPrinted(level, event, i) ==
    \E n \in 1..Len(log) :
        log[n].level = level /\ log[n].event = event /\ log[n].file = i

\* The JSONL files the loop of move_and_transform_data has been through.
Attempted ==
    {jsonl_files[n] : n \in {m \in 1..Len(jsonl_files) : m < fileIdx}}

\* C17: a JSONL file is deleted only after its conversion.  A moved JSONL
\* file that is gone has been converted by jsonl_to_csv, and its CSV file
\* is there; a file whose iteration failed is still in place; and the loop
\* goes through every moved file, whatever failed before it.
C17_DeletedOnlyAfterConversion ==
    pc # "move" =>
        /\ \A i \in Produced :
             /\ JsonlPath(i) \notin disk =>
                  HasPrinted("info", "converted", i) /\ CsvOutPath(i) \in disk
             /\ HasPrinted("error", "convert", i) => JsonlPath(i) \in disk
             /\ i \in Attempted <=>
                  HasPrinted("error", "convert", i) \/ HasPrinted("info", "deleted", i)
        /\ pc # "convert" => Attempted = Produced

\* The loop has ended, the conversion of the first file raised, its JSONL
\* file is in place, and a later file was converted and deleted.
C17_Witness ==
    /\ pc = "upload_jsonl"
    /\ Len(jsonl_files) >= 2
    /\ HasPrinted("error", "convert", jsonl_files[1])
    /\ ~HasPrinted("info", "converted", jsonl_files[1])
    /\ JsonlPath(jsonl_files[1]) \in disk
    /\ JsonlPath(jsonl_files[2]) \notin disk
    /\ CsvOutPath(jsonl_files[2]) \in disk

\* The column of the chunk read that holds the dates.
DateColumn(df) == IF "date" \in Range(df.columns) THEN "date" ELSE "accident_date"

\* C13: accident_date coercion retains rows.  The chunk that
\* clean_and_transform_data returns has as many rows as the chunk read, and
\* row i of it has a null accident_date when the date of row i read is
\* malformed, and the timestamp when it is a date.
C13_DateCoercionKeepsRows ==
    result.exc = "" =>
        /\ Len(result.df.rows) = Len(chunk.rows)
        /\ \A i \in 1..Len(chunk.rows) :
             IF chunk.rows[i][DateColumn(chunk)] = Str(BadDate)
             THEN result.df.rows[i]["accident_date"] = NaT
             ELSE result.df.rows[i]["accident_date"].k = "ts"

\* A chunk of a row with a malformed date and a row with a date has been
\* transformed.
C13_Witness ==
    /\ result.exc = ""
    /\ Len(chunk.rows) = 2
    /\ chunk.rows[1][DateColumn(chunk)] = Str(BadDate)
    /\ chunk.rows[2][DateColumn(chunk)] = Str(DateIn)
    /\ result.df.rows[1]["accident_date"] = NaT
    /\ result.df.rows[2]["accident_date"].k = "ts"

\* C14: clean_and_transform_data is free of side effects.  After the call
\* the caller's chunk has the columns, the column names and the cells it had
\* before.
C14_SideEffectFree == result.exc # "pending" => result.arg = chunk

\* The steps of load_csv_in_batches between connect_db and conn.close().
LoadSteps ==
    {"read", "transform", "serialize", "copy", "commit", "finish", "except",
     "finally"}

\* C15: connection discipline.  Outside the load of a source, and so when
\* the connection for the next source is opened, no connection is open and
\* no transaction is in progress, whether the load before finished, failed
\* at a chunk or failed before its first chunk; and a transaction in
\* progress is that of the one open connection.
C15_ConnectionDiscipline ==
    /\ pc \notin LoadSteps => conn \in {"none", "closed"} /\ ~txn.active
    /\ txn.active => conn = "open" /\ pc \in LoadSteps

\* The connection for the second source is about to be opened, after the
\* load of the first failed at a chunk, and the first's is closed.
C15_Witness ==
    /\ pc = "connect" /\ fileIdx = 2
    /\ conn = "closed"
    /\ \E n \in LoadErrors : log[n].file = 1 /\ log[n].event = "DataError"

\* The rows of source f in the committed table, loaded by this run.
Committed(f) ==
    Cardinality({r \in table.rows : r.src[1] = runs /\ r.src[2] = f})

\* The sum of the rows of the first n records of a list of records.
RECURSIVE SumRows(_, _)
SumRows(recs, n) == IF n = 0 THEN 0 ELSE recs[n].rows + SumRows(recs, n - 1)

\* C16: the running total counts committed rows only.  During the load of a
\* source total_rows is the number of its rows in the committed table; the
\* total in the record of a chunk is the sum of the sizes of the chunks
\* committed so far; and the final total of a source is the number of its
\* rows, all of them committed, and is reported for no source whose load
\* failed.
C16_TotalIsCommitted ==
    /\ pc \in LoadSteps => total_rows = Committed(fileIdx)
    /\ \A f \in 1..Len(files) :
         /\ \A k \in 1..Len(Uploaded(f)) :
              Uploaded(f)[k].total = SumRows(Uploaded(f), k)
         /\ \A n \in 1..Len(log) :
              (log[n].event = "finished" /\ log[n].file = f) =>
                  /\ log[n].total = Len(files[f].rows)
                  /\ log[n].total = Committed(f)
                  /\ ~HasError(f)

\* The copy or the commit of the second chunk of a source has failed after
\* the commit of the first, and the total is the rows of the first.
C16_Witness ==
    /\ pc = "except" /\ error = "OperationalError"
    /\ csv_buffer # <<>>
    /\ ~txn.active
    /\ total_rows = BatchSize
    /\ Committed(fileIdx) = BatchSize
    /\ pos > BatchSize

=============================================================================
